---- MODULE Spec2Model ----
(***************************************************************************)
(* Model of django_microsoft_auth: the OAuth2 callback view                *)
(* (views.AuthenticateCallbackView), the authentication backend            *)
(* (backends.MicrosoftAuthenticationBackend), the OAuth client             *)
(* (client.MicrosoftClient) and the login template tag                     *)
(* (templatetags.microsoft_auth.load_auth_values).                         *)
(*                                                                         *)
(* Python values: an Optional value is a sequence of length <= 1           *)
(* (None == <<>>, a value v == <<v>>); a str that the code inspects        *)
(* character by character is a sequence of one-character strings; a dict   *)
(* is a function whose DOMAIN is the set of its keys.                      *)
(* Library behaviour is that of the versions setup.py pins:                *)
(* django>=2.0,<2.3, pyjwt==1.7.1, requests-oauthlib==1.2.0.               *)
(***************************************************************************)
EXTENDS Integers, Sequences, FiniteSets, TLC

VARIABLES
    now,        \* time.time(), in seconds
    signed,     \* values signed so far with the project's TimestampSigner
    users,      \* the user table, in primary-key order
    pc,         \* position of the callback request being handled
    sid,        \* browser session of the request being handled
    kwargs,     \* request.POST.dict() of the request being handled
    message,    \* self.context["message"]
    status,     \* HTTP status of the rendered response (0: none rendered)
    exc,        \* exception that escaped the view ("" if none)
    client,     \* the MicrosoftClient of this authenticate call
    local,      \* locals of authenticate / _get_user_from_microsoft
    trace,      \* the calls the request made: fetch_token, get_claims, and
                \* login(request, user) with the account it was given
    call,       \* the last direct call of _get_user_from_microsoft: its
                \* arguments, the table it found and the account it returned
    procs,      \* concurrent calls of _get_user_from_microsoft: position,
                \* arguments and the model instance each one holds
    clients,    \* MicrosoftClient instances used on their own: their cached
                \* properties, their token, the GETs they made, the last call
    accepted    \* history: the state values that passed _check_csrf in a
                \* callback that is over

vars == <<now, signed, users, pc, sid, kwargs, message, status, exc,
          client, local, trace, call, procs, clients, accepted>>

\* the variables the callback view does not touch
aux == <<call, procs, clients>>

----------------------------------------------------------------------------
(* Bounds of the model *)

MaxNow == 302
MaxSigned == 1
MaxUsers == 2

(* Program constants *)

MaxAge == 300
CSRF_TOKEN_LENGTH == 64

None == <<>>
Some(x) == <<x>>

Rep(c, n) == [i \in 1..n |-> c]

----------------------------------------------------------------------------
(* Strings the model uses, as sequences of characters *)

AlnumChars == {"a", "b", "e", "i", "j", "n", "o", "u", "x", "B", "D", "J", "7"}

Sessions == {"A", "B"}

\* django.middleware.csrf.get_token: CSRF_TOKEN_LENGTH alphanumeric characters,
\* one token per browser session
get_token(s) == IF s = "A" THEN Rep("a", CSRF_TOKEN_LENGTH)
                ELSE Rep("B", CSRF_TOKEN_LENGTH)


----------------------------------------------------------------------------
(* django.core.signing.TimestampSigner, as the tag and the view use it *)

\* the HMAC of "value:timestamp" under SECRET_KEY: only the project computes it
Signature(value, ts) == <<"hmac", value, ts>>

\* TimestampSigner.sign at time t: "value:timestamp:signature"
TimestampSign(value, t) == [value |-> value, ts |-> t, sig |-> Signature(value, t)]

\* what a client who holds a signed value can make of it without the key
Tampered(s, t) ==
    { [s EXCEPT !.sig = <<"forged">>],
      [s EXCEPT !.ts = t],
      [s EXCEPT !.value = Rep("7", CSRF_TOKEN_LENGTH)] }

\* a string that was never signed
Garbage == [value |-> Rep("a", CSRF_TOKEN_LENGTH), ts |-> 0, sig |-> <<"forged">>]

\* unsign that expires a value when its age reaches max_age
Unsign_strict(state, t) ==
    IF state = None
      THEN [exc |-> "TypeError", value |-> <<>>]
    ELSE IF state[1].sig # Signature(state[1].value, state[1].ts)
      THEN [exc |-> "BadSignature", value |-> <<>>]
    ELSE IF t - state[1].ts >= MaxAge
      THEN [exc |-> "SignatureExpired", value |-> <<>>]
    ELSE [exc |-> "", value |-> state[1].value]

\* signer.unsign(state, max_age=300): the exception it raises ("" if none) and
\* the value it returns.  Signer.unsign evaluates `sep in signed_value`, a
\* TypeError for None; SignatureExpired is raised when age > max_age.
Unsign(state, t) ==
    IF state = None
      THEN [exc |-> "TypeError", value |-> <<>>]
    ELSE IF state[1].sig # Signature(state[1].value, state[1].ts)
      THEN [exc |-> "BadSignature", value |-> <<>>]
    ELSE IF t - state[1].ts > MaxAge
      THEN [exc |-> "SignatureExpired", value |-> <<>>]
    ELSE [exc |-> "", value |-> state[1].value]

\* the two checks of _check_csrf on the recovered token
StateChecks(tok) ==
    /\ \E i \in 1..Len(tok) : tok[i] \in AlnumChars
    /\ Len(tok) = CSRF_TOKEN_LENGTH

\* _check_csrf: the exception that escapes it ("" if none) and the message
\* it leaves.  `except BadSignature` also catches its subclass SignatureExpired.
check_csrf(state, t, msg) ==
    LET r == Unsign(state, t)
        tok == IF r.exc \in {"BadSignature", "SignatureExpired"} THEN <<>> ELSE r.value
    IN  IF r.exc = "TypeError"
          THEN [exc |-> "TypeError", message |-> msg]
        ELSE IF ~StateChecks(tok)
          THEN [exc |-> "", message |-> [k \in {"error"} |-> "bad_state"]]
        ELSE [exc |-> "", message |-> msg]

\* _check_microsoft_response: the message it leaves
check_microsoft_response(error, error_description, msg) ==
    IF "error" \notin DOMAIN msg /\ error # None
      THEN [k \in {"error", "error_description"} |->
               IF k = "error" THEN error[1] ELSE error_description]
      ELSE msg

\* AuthenticateCallbackView.messages
messages ==
    [k \in {"bad_state", "missing_code", "login_failed"} |->
        IF k = "bad_state" THEN "An invalid state variable was provided."
        ELSE IF k = "missing_code" THEN "No authentication code was provided."
        ELSE "Failed to authenticate you for an unknown reason."]

\* get_context_data, lines 75-82: back-fills error_description
populate_description(msg) ==
    IF "error" \in DOMAIN msg /\ "error_description" \notin DOMAIN msg
      THEN [k \in {"error", "error_description"} |->
               IF k = "error" THEN msg["error"] ELSE Some(messages[msg["error"]])]
      ELSE msg

\* post, lines 147-149
status_code(msg) == IF "error" \in DOMAIN msg THEN 400 ELSE 200


----------------------------------------------------------------------------
(* client.MicrosoftClient *)

\* settings.MICROSOFT_AUTH_CLIENT_ID
CLIENT_ID == "client-id"

\* MicrosoftClient.SCOPE_MICROSOFT
SCOPE_MICROSOFT == <<"openid", "email", "profile">>

ToSet(seq) == {seq[i] : i \in 1..Len(seq)}

\* valid_scopes with the operands of <= exchanged
valid_scopes_swapped(scopes) == ToSet(scopes) \subseteq ToSet(SCOPE_MICROSOFT)

\* valid_scopes: set(self.SCOPE_MICROSOFT) <= set(scopes); `scopes` is
\* token["scope"], the list oauthlib makes of the granted scope string
valid_scopes(scopes) == ToSet(SCOPE_MICROSOFT) \subseteq ToSet(scopes)

\* openid_config: what a discovery response makes of it (cached_property):
\* the exception raised ("" if none) and the document, as its set of keys
FullConfig == {"authorization_endpoint", "token_endpoint", "jwks_uri"}
openid_config(response) ==
    IF response = "neterr" THEN [exc |-> "ConnectionError", doc |-> {}]
    ELSE IF response = "ok" THEN [exc |-> "", doc |-> FullConfig]
    ELSE [exc |-> "", doc |-> {}]

\* jwks: what a key-set response makes of it (cached_property); accessing it
\* reads openid_config["jwks_uri"]
jwks(config, response) ==
    IF "jwks_uri" \notin config THEN [exc |-> "KeyError", keys |-> <<>>]
    ELSE IF response.status = "neterr" THEN [exc |-> "ConnectionError", keys |-> <<>>]
    ELSE IF response.status = "ok" THEN [exc |-> "", keys |-> response.keys]
    ELSE [exc |-> "", keys |-> <<>>]

\* the first key of `keys` whose kid is `kid`: the loop of lines 107-110,
\* which leaves `jwk` unbound when no key matches
FirstMatch(keys, kid) ==
    LET hits == {i \in 1..Len(keys) : keys[i].kid = kid}
    IN  IF hits = {} THEN None
        ELSE Some(keys[CHOOSE i \in hits : \A j \in hits : i <= j])

\* jwt.decode(token, public_key, algoithm="RS256", audience=CLIENT_ID) of
\* PyJWT 1.7.1: `algoithm` is swallowed by **kwargs, `algorithms` stays None,
\* so the algorithm is the one the token header names.  The exception raised
\* ("" if none) and the payload.
jwt_decode(tok, key, t) ==
    IF tok.alg = "HS256"
      THEN [exc |-> "TypeError", claims |-> None]            \* force_bytes(key)
    ELSE IF tok.alg \notin {"RS256", "RS384"}
      THEN [exc |-> "InvalidKeyError", claims |-> None]      \* alg none
    ELSE IF tok.signed # [key |-> key, alg |-> tok.alg]
      THEN [exc |-> "InvalidSignatureError", claims |-> None]
    ELSE IF tok.exp < t
      THEN [exc |-> "ExpiredSignatureError", claims |-> None]
    ELSE IF tok.aud # CLIENT_ID
      THEN [exc |-> "InvalidAudienceError", claims |-> None]
    ELSE [exc |-> "", claims |-> Some(tok.claims)]

PyJWTErrors == {"DecodeError", "InvalidKeyError", "InvalidSignatureError",
                "ExpiredSignatureError", "InvalidAudienceError"}

\* get_claims: the exception that escapes it ("" if none), what it returns,
\* and the key list self.jwks caches (None if it was not read).  `token` is
\* self.token, `config` the cached openid_config, `response` the key-set
\* response.
get_claims(token, config, response, t) ==
    IF token = None THEN [exc |-> "", claims |-> None, keys |-> None]
    ELSE IF token[1].id_token = None
      THEN [exc |-> "KeyError", claims |-> None, keys |-> None]
    ELSE LET tok == token[1].id_token[1]
             ks == jwks(config, response)
             jwk == FirstMatch(ks.keys, tok.kid[1])
             d == jwt_decode(tok, jwk[1].key, t)
         IN  IF ~tok.wellformed
               THEN [exc |-> "DecodeError", claims |-> None, keys |-> None]
             ELSE IF tok.kid = None
               THEN [exc |-> "KeyError", claims |-> None, keys |-> None]
             ELSE IF ks.exc # ""
               THEN [exc |-> ks.exc, claims |-> None, keys |-> None]
             ELSE IF jwk = None
               THEN [exc |-> "UnboundLocalError", claims |-> None, keys |-> Some(ks.keys)]
             ELSE IF jwk[1].kty # "RSA"
               THEN [exc |-> "InvalidKeyError", claims |-> None, keys |-> Some(ks.keys)]
             ELSE IF d.exc \in PyJWTErrors
               THEN [exc |-> "", claims |-> None, keys |-> Some(ks.keys)]
             ELSE [exc |-> d.exc, claims |-> d.claims, keys |-> Some(ks.keys)]

----------------------------------------------------------------------------
(* backends.MicrosoftAuthenticationBackend._get_user_from_microsoft *)

USERNAME_MAX == 150

\* Take without the truncation
Take_whole(seq, n) == seq

Take(seq, n) == SubSeq(seq, 1, IF Len(seq) < n THEN Len(seq) ELSE n)

\* data.get("name", '').split(" ", 1), lines 98-102
split_name(data) ==
    LET name == IF data.name = None THEN <<>> ELSE data.name[1]
        sp == {i \in 1..Len(name) : name[i] = " "}
        i0 == CHOOSE i \in sp : \A j \in sp : i <= j
    IN  IF sp = {} THEN [first_name |-> name, last_name |-> <<>>]
        ELSE [first_name |-> SubSeq(name, 1, i0 - 1),
              last_name |-> SubSeq(name, i0 + 1, Len(name))]

LocalChars == AlnumChars \cup {"_", ".", "+", "-"}
DomainChars == AlnumChars \cup {"-"}
TailChars == AlnumChars \cup {"-", "."}

\* re.match(r"(^[a-zA-Z0-9_.+-]+@[a-zA-Z0-9-]+\.[a-zA-Z0-9-.]+$)", s), line 106
is_email(str) ==
    \E i \in 2..Len(str) :
        /\ str[i] = "@"
        /\ \A k \in 1..(i - 1) : str[k] \in LocalChars
        /\ \E j \in (i + 2)..(Len(str) - 1) :
            /\ str[j] = "."
            /\ \A k \in (i + 1)..(j - 1) : str[k] \in DomainChars
            /\ \A k \in (j + 1)..Len(str) : str[k] \in TailChars

\* User.objects.filter(microsoft_id=sub).first(): lowest primary key
find_by_microsoft_id(us, sub) ==
    LET hits == {i \in 1..Len(us) : us[i].microsoft_id = Some(sub)}
    IN  IF hits = {} THEN None ELSE Some(CHOOSE i \in hits : \A j \in hits : i <= j)

find_by_username(us, name) ==
    LET hits == {i \in 1..Len(us) : us[i].username = name}
    IN  IF hits = {} THEN None ELSE Some(CHOOSE i \in hits : TRUE)

\* User.objects.get_or_create(username=..., defaults={...})[0], lines 109-121:
\* looks up the full preferred_username, creates with the truncated one;
\* username is unique
get_or_create(us, data, ms_token, refresh_token, microsoft_expires_at) ==
    LET got == find_by_username(us, data.preferred_username)
        names == split_name(data)
        row == [username |-> Take(data.preferred_username, USERNAME_MAX),
                first_name |-> names.first_name,
                last_name |-> names.last_name,
                email |-> IF is_email(data.preferred_username)
                            THEN data.preferred_username ELSE <<>>,
                microsoft_id |-> Some(data.sub),
                microsoft_code |-> ms_token,
                microsoft_refresh |-> refresh_token,
                microsoft_expires_at |-> microsoft_expires_at]
    IN  IF got # None THEN [exc |-> "", users |-> us, user |-> got]
        ELSE IF find_by_username(us, row.username) # None
          THEN [exc |-> "IntegrityError", users |-> us, user |-> None]
        ELSE [exc |-> "", users |-> Append(us, row), user |-> Some(Len(us) + 1)]

\* backfill that links the account whatever its microsoft_id is
backfill_relink(u, data) ==
    LET names == split_name(data)
        u1 == [u EXCEPT !.microsoft_id = Some(data.sub)]
    IN  IF u1.first_name = <<>> /\ u1.last_name = <<>>
          THEN [u1 EXCEPT !.first_name = names.first_name,
                          !.last_name = names.last_name]
          ELSE u1

\* lines 126-133: the two back-fills after get_or_create
backfill(u, data) ==
    LET names == split_name(data)
        u1 == IF u.microsoft_id \in {None, Some("")}
                THEN [u EXCEPT !.microsoft_id = Some(data.sub)] ELSE u
    IN  IF u1.first_name = <<>> /\ u1.last_name = <<>>
          THEN [u1 EXCEPT !.first_name = names.first_name,
                          !.last_name = names.last_name]
          ELSE u1

\* store_tokens that keeps the stored refresh token
store_tokens_keep_refresh(u, ms_token, refresh_token, microsoft_expires_at) ==
    [u EXCEPT !.microsoft_code = ms_token,
              !.microsoft_expires_at = microsoft_expires_at]

\* lines 135-138: the unconditional overwrite of the stored tokens
store_tokens(u, ms_token, refresh_token, microsoft_expires_at) ==
    [u EXCEPT !.microsoft_code = ms_token,
              !.microsoft_refresh = refresh_token,
              !.microsoft_expires_at = microsoft_expires_at]

\* _get_user_from_microsoft that, when the creation fails, adopts the account
\* holding the truncated user name (links it and stores the tokens) and still
\* returns None
get_user_from_microsoft_adopts(us, data, ms_token, refresh_token, microsoft_expires_at) ==
    LET found == find_by_microsoft_id(us, data.sub)
        made == get_or_create(us, data, ms_token, refresh_token, microsoft_expires_at)
        pk == IF found # None THEN found[1] ELSE made.user[1]
        us1 == IF found # None THEN us
               ELSE [made.users EXCEPT ![pk] = backfill(@, data)]
        held == find_by_username(us, Take(data.preferred_username, USERNAME_MAX))
    IN  IF found = None /\ made.exc = "IntegrityError"
          THEN [users |-> [us EXCEPT ![held[1]] =
                              store_tokens([@ EXCEPT !.microsoft_id = Some(data.sub)],
                                           ms_token, refresh_token,
                                           microsoft_expires_at)],
                user |-> None]
          ELSE [users |-> [us1 EXCEPT ![pk] =
                              store_tokens(@, ms_token, refresh_token,
                                           microsoft_expires_at)],
                user |-> Some(pk)]

\* _get_user_from_microsoft: the user table it leaves and the account it
\* returns (None after an IntegrityError, which it catches)
get_user_from_microsoft(us, data, ms_token, refresh_token, microsoft_expires_at) ==
    LET found == find_by_microsoft_id(us, data.sub)
        made == get_or_create(us, data, ms_token, refresh_token, microsoft_expires_at)
        pk == IF found # None THEN found[1] ELSE made.user[1]
        us1 == IF found # None THEN us
               ELSE [made.users EXCEPT ![pk] = backfill(@, data)]
    IN  IF found = None /\ made.exc = "IntegrityError"
          THEN [users |-> us, user |-> None]
          ELSE [users |-> [us1 EXCEPT ![pk] =
                              store_tokens(@, ms_token, refresh_token,
                                           microsoft_expires_at)],
                user |-> Some(pk)]


----------------------------------------------------------------------------
(* Inputs: what browsers and the identity provider send *)

Jane == [sub |-> "abc123",
         preferred_username |-> <<"j", "a", "n", "e", "@", "x", ".", "i", "o">>,
         name |-> Some(<<"J", "a", "n", "e", " ", "D", "o", "e">>)]
Bob == [sub |-> "bob456",
        preferred_username |-> <<"b", "o", "b">>,
        name |-> Some(<<"B", "o", "b">>)]
\* user names longer than username's max_length, equal in their first
\* USERNAME_MAX characters
Long == [sub |-> "long789",
         preferred_username |-> Rep("a", USERNAME_MAX - 4) \o <<"@", "x", ".", "i", "o">>,
         name |-> None]
Long2 == [sub |-> "long000",
          preferred_username |-> Rep("a", USERNAME_MAX - 4) \o <<"@", "x", ".", "i", "n">>,
          name |-> Some(<<"L", "o">>)]
\* the identities of the callbacks: one short user name and one longer than
\* username's max_length
Identities == {Jane, Long2}

\* an identity token the provider signed with key K1 for this client
GoodIdToken(ident, t) ==
    [wellformed |-> TRUE, kid |-> Some("k1"), alg |-> "RS256",
     signed |-> [key |-> "K1", alg |-> "RS256"],
     aud |-> CLIENT_ID, exp |-> t + 3600, claims |-> ident]

IdTokens(t) ==
    LET g == GoodIdToken(Jane, t)
    IN  { g, GoodIdToken(Long2, t),
          [g EXCEPT !.wellformed = FALSE],
          [g EXCEPT !.kid = None],
          [g EXCEPT !.kid = Some("k9")],
          [g EXCEPT !.kid = Some("k2")],
          [g EXCEPT !.signed = [key |-> "K9", alg |-> "RS256"]],
          [g EXCEPT !.alg = "RS384"],
          [g EXCEPT !.alg = "RS384", !.signed = [key |-> "K1", alg |-> "RS384"]],
          [g EXCEPT !.alg = "HS256", !.signed = [key |-> "K1", alg |-> "HS256"]],
          [g EXCEPT !.alg = "none", !.signed = [key |-> "", alg |-> "none"]],
          [g EXCEPT !.aud = "other-client"],
          [g EXCEPT !.exp = t - 1] }

FullScope == <<"openid", "email", "profile">>
Scopes == { None, Some(FullScope), Some(<<"openid", "profile">>),
            Some(<<"profile", "User.Read", "email", "openid">>), Some(<<>>) }

\* token responses of the provider's token endpoint, as fetch_token returns them
TokenResponses(t) ==
    { [scope |-> Some(FullScope), access_token |-> Some("at1"),
       refresh_token |-> Some("rt1"), expires_at |-> Some("e1"),
       id_token |-> Some(i)] : i \in IdTokens(t) }
    \cup
    { [scope |-> sc, access_token |-> a,
       refresh_token |-> r, expires_at |-> IF r = None THEN None ELSE Some("e1"),
       id_token |-> Some(GoodIdToken(Jane, t))] :
         sc \in Scopes, a \in {None, Some("at1")}, r \in {None, Some("rt1")} }
    \cup
    { [scope |-> Some(FullScope), access_token |-> Some("at1"),
       refresh_token |-> None, expires_at |-> None, id_token |-> None] }

\* what super().fetch_token does: raise (network failure, an OAuth error the
\* provider answered) or return a token response
ExchangeResults(t) ==
    { [exc |-> e, token |-> None] : e \in {"ConnectionError", "InvalidGrantError"} }
    \cup { [exc |-> "", token |-> Some(tok)] : tok \in TokenResponses(t) }

DiscoveryResponses == {"ok", "not_ok", "neterr"}

J1 == [kid |-> "k1", kty |-> "RSA", key |-> "K1"]
J2 == [kid |-> "k2", kty |-> "RSA", key |-> "K2"]
JwksResponses ==
    { [status |-> "not_ok", keys |-> <<>>], [status |-> "neterr", keys |-> <<>>] }
    \cup { [status |-> "ok", keys |-> ks] :
             ks \in { <<>>, <<J1>>, <<J2, J1>>, <<J2>>,
                      <<[J1 EXCEPT !.key = "K2"], J1>>,
                      <<[J1 EXCEPT !.kty = "EC"]>> } }

Codes == {None, Some("c1")}
Errors == {None, Some("access_denied")}
Descriptions == {None, Some("The user denied access.")}

\* the state values a browser can present at time t
States(t) ==
    {None, Some(Garbage)}
    \cup { Some(s) : s \in signed }
    \cup { Some(x) : x \in UNION { Tampered(s, t) : s \in signed } }

Kwargs(t) ==
    { [state |-> st, error |-> e, error_description |-> ed, code |-> c] :
        st \in States(t), e \in Errors, ed \in Descriptions, c \in Codes }

----------------------------------------------------------------------------
(* State *)

EmptyDict == [k \in {} |-> ""]

NoKwargs == [state |-> None, error |-> None, error_description |-> None, code |-> None]
NoClient == [cfg |-> None, keys |-> None, token |-> None]
NoLocal == [scope |-> None, claims |-> None, user |-> None]
NoTrace == [fetch_token |-> FALSE, get_claims |-> FALSE, login |-> None,
            users0 |-> <<>>, csrf_ok |-> FALSE]
NoCall == [data |-> None, token |-> None, users0 |-> <<>>, user |-> None]

\* the requests that can be in _get_user_from_microsoft at the same time
Procs == {"p", "q"}
NoProc == [pc |-> "idle", data |-> None, tok |-> None, obj |-> None, lost |-> FALSE]
NoProcs == [p \in Procs |-> NoProc]

\* a MicrosoftClient after __init__: nothing cached, no token; the counters
\* are the GETs sent for each of the two properties
\* two instances: one like the login template tag's, which only builds the
\* authorization URL (templatetags/microsoft_auth.py:22-23), and one on
\* which every method is called
ClientIds == {"tag", "any"}
FullClients == {"any"}
NewClient == [cfg |-> None, keys |-> None, token |-> None,
              cfg_gets |-> 0, jwks_gets |-> 0]
\* the last call: instance, method, answer to the refresh request if it was
\* refresh_token, the user table before it, exception raised, value returned
NoLast == [c |-> "", op |-> "", x |-> None, users0 |-> <<>>, exc |-> "", ret |-> None]
NoClients == [inst |-> [c \in ClientIds |-> NewClient], last |-> NoLast]

Init ==
    /\ now = 0
    /\ signed = {}
    /\ users = <<>>
    /\ pc = "idle"
    /\ sid = "A"
    /\ kwargs = NoKwargs
    /\ message = EmptyDict
    /\ status = 0
    /\ exc = ""
    /\ client = NoClient
    /\ local = NoLocal
    /\ trace = NoTrace
    /\ call = NoCall
    /\ procs = NoProcs
    /\ clients = NoClients
    /\ accepted = {}


----------------------------------------------------------------------------
(* Actions *)

TickSteps == {MaxAge \div 2, MaxAge \div 2 + 1}

\* time passes between requests; the clock of the model starts with the first
\* signed value
Tick ==
    /\ pc = "idle"
    /\ signed # {}
    /\ \E d \in TickSteps : now + d <= MaxNow /\ now' = now + d
    /\ UNCHANGED <<signed, users, pc, sid, kwargs, message, status, exc,
                   client, local, trace>>
    /\ UNCHANGED <<aux, accepted>>

\* templatetags load_auth_values, rendered for a browser session s: signs the
\* session's CSRF token as the state of the authorization URL
load_auth_values ==
    /\ pc = "idle"
    /\ \E s \in Sessions :
        /\ Cardinality(signed \cup {TimestampSign(get_token(s), now)}) <= MaxSigned
        /\ signed' = signed \cup {TimestampSign(get_token(s), now)}
    /\ UNCHANGED <<now, users, pc, sid, kwargs, message, status, exc,
                   client, local, trace>>
    /\ UNCHANGED <<aux, accepted>>

\* post / get_context_data lines 56-62: a callback POST arrives from a browser
\* session with some form fields
post ==
    /\ pc = "idle"
    /\ \E s \in Sessions : sid' = s
    /\ \E kw \in Kwargs(now) : kwargs' = kw
    /\ message' = EmptyDict
    /\ status' = 0
    /\ exc' = ""
    /\ client' = NoClient
    /\ local' = NoLocal
    /\ trace' = [NoTrace EXCEPT !.users0 = users]
    /\ pc' = "check_csrf"
    /\ UNCHANGED <<now, signed, users>>
    /\ UNCHANGED <<aux, accepted>>

\* an exception escapes the view: Django answers 500
Raise(e) ==
    /\ pc' = "raised"
    /\ exc' = e
    /\ status' = 500

\* get_context_data line 65
CheckCsrf ==
    /\ pc = "check_csrf"
    /\ LET r == check_csrf(kwargs.state, now, message)
       IN  IF r.exc # ""
             THEN Raise(r.exc) /\ UNCHANGED <<message, trace>>
             ELSE /\ message' = r.message
                  /\ trace' = [trace EXCEPT !.csrf_ok = "error" \notin DOMAIN r.message]
                  /\ pc' = "check_response"
                  /\ UNCHANGED <<exc, status>>
    /\ UNCHANGED <<now, signed, users, sid, kwargs, client, local>>
    /\ UNCHANGED <<aux, accepted>>

\* get_context_data lines 68-70
CheckMicrosoftResponse ==
    /\ pc = "check_response"
    /\ message' = check_microsoft_response(kwargs.error, kwargs.error_description,
                                           message)
    /\ pc' = "authenticate"
    /\ UNCHANGED <<now, signed, users, sid, kwargs, status, exc,
                   client, local, trace>>
    /\ UNCHANGED <<aux, accepted>>

\* _authenticate lines 124-129, up to the call of the backend
Authenticate ==
    /\ pc = "authenticate"
    /\ IF "error" \in DOMAIN message
         THEN pc' = "populate" /\ UNCHANGED message
       ELSE IF kwargs.code = None
         THEN /\ message' = [k \in {"error"} |-> "missing_code"]
              /\ pc' = "populate"
       ELSE pc' = "fetch_token" /\ UNCHANGED message
    /\ UNCHANGED <<now, signed, users, sid, kwargs, status, exc,
                   client, local, trace>>
    /\ UNCHANGED <<aux, accepted>>

\* _authenticate lines 130-134: authenticate returned no user
LoginFailed ==
    /\ message' = [k \in {"error"} |-> "login_failed"]
    /\ pc' = "populate"
    /\ UNCHANGED <<exc, status>>

\* backends.authenticate line 59, client.fetch_token: reads the discovery
\* document (some response d) and exchanges the code (some result x)
FetchToken ==
    /\ pc = "fetch_token"
    /\ trace' = [trace EXCEPT !.fetch_token = TRUE]
    /\ \E d \in DiscoveryResponses : \E x \in ExchangeResults(now) :
       LET c == openid_config(d)
       IN  IF c.exc # ""
             THEN Raise(c.exc) /\ UNCHANGED client
           ELSE IF "token_endpoint" \notin c.doc
             THEN Raise("KeyError") /\ client' = [client EXCEPT !.cfg = Some(c.doc)]
           ELSE IF x.exc # ""
             THEN Raise(x.exc) /\ client' = [client EXCEPT !.cfg = Some(c.doc)]
           ELSE /\ client' = [client EXCEPT !.cfg = Some(c.doc), !.token = x.token]
                /\ pc' = "scopes"
                /\ UNCHANGED <<exc, status>>
    /\ UNCHANGED <<now, signed, users, sid, kwargs, message, local>>
    /\ UNCHANGED <<aux, accepted>>

\* backends.authenticate lines 62-75
CheckScopes ==
    /\ pc = "scopes"
    /\ LET token == client.token[1]
           scope == valid_scopes(token.scope[1])
       IN  IF token.scope = None
             THEN Raise("KeyError") /\ UNCHANGED <<message, local>>
           ELSE /\ local' = [local EXCEPT !.scope = Some(scope)]
                /\ IF token.access_token # None /\ scope
                     THEN pc' = "get_claims" /\ UNCHANGED <<message, exc, status>>
                     ELSE LoginFailed
    /\ UNCHANGED <<now, signed, users, sid, kwargs, client, trace>>
    /\ UNCHANGED <<aux, accepted>>

\* backends._authenticate_user lines 80-88, client.get_claims with some
\* key-set response j
GetClaims ==
    /\ pc = "get_claims"
    /\ trace' = [trace EXCEPT !.get_claims = TRUE]
    /\ \E j \in JwksResponses :
       LET r == get_claims(client.token, client.cfg[1], j, now)
       IN  /\ client' = [client EXCEPT !.keys = r.keys]
           /\ IF r.exc # ""
                THEN Raise(r.exc) /\ UNCHANGED <<message, local>>
              ELSE IF r.claims = None
                THEN LoginFailed /\ UNCHANGED local
              ELSE /\ local' = [local EXCEPT !.claims = r.claims]
                   /\ pc' = "get_user"
                   /\ UNCHANGED <<message, exc, status>>
    /\ UNCHANGED <<now, signed, users, sid, kwargs>>
    /\ UNCHANGED <<aux, accepted>>

\* the arguments authenticate passes on, lines 63-74
RefreshArg(token) == IF token.refresh_token = None THEN "" ELSE token.refresh_token[1]
ExpiresArg(token) == IF token.expires_at = None THEN "0" ELSE token.expires_at[1]

\* backends._get_user_from_microsoft
GetUser ==
    /\ pc = "get_user"
    /\ LET token == client.token[1]
           r == get_user_from_microsoft(users, local.claims[1], token.access_token[1],
                                        RefreshArg(token), ExpiresArg(token))
       IN  /\ Len(r.users) <= MaxUsers
           /\ users' = r.users
           /\ local' = [local EXCEPT !.user = r.user]
           /\ IF r.user = None
                THEN LoginFailed
                ELSE pc' = "login" /\ UNCHANGED <<message, exc, status>>
    /\ UNCHANGED <<now, signed, sid, kwargs, client, trace>>
    /\ UNCHANGED <<aux, accepted>>

\* _authenticate line 136: login(self.request, user)
Login ==
    /\ pc = "login"
    /\ trace' = [trace EXCEPT !.login = local.user]
    /\ pc' = "populate"
    /\ UNCHANGED <<now, signed, users, sid, kwargs, message, status, exc,
                   client, local>>
    /\ UNCHANGED <<aux, accepted>>

\* get_context_data lines 75-87 and post lines 147-150
Render ==
    /\ pc = "populate"
    /\ message' = populate_description(message)
    /\ status' = status_code(message)
    /\ pc' = "done"
    /\ UNCHANGED <<now, signed, users, sid, kwargs, exc, client, local,
                   trace>>
    /\ UNCHANGED <<aux, accepted>>

\* the request is over; the view and its client are discarded
Finish ==
    /\ pc \in {"done", "raised"}
    /\ pc' = "idle"
    /\ sid' = "A"
    /\ kwargs' = NoKwargs
    /\ message' = EmptyDict
    /\ status' = 0
    /\ exc' = ""
    /\ client' = NoClient
    /\ local' = NoLocal
    /\ trace' = NoTrace
    /\ accepted' = IF trace.csrf_ok THEN accepted \cup {kwargs.state[1]}
                   ELSE accepted
    /\ UNCHANGED <<now, signed, users>>
    /\ UNCHANGED aux

Next ==
    \/ Tick
    \/ load_auth_values
    \/ post
    \/ CheckCsrf
    \/ CheckMicrosoftResponse
    \/ Authenticate
    \/ FetchToken
    \/ CheckScopes
    \/ GetClaims
    \/ GetUser
    \/ Login
    \/ Render
    \/ Finish

Spec == Init /\ [][Next]_vars


----------------------------------------------------------------------------
(* Callbacks on a table that already holds an account (ConflictSpec)      *)
(*                                                                         *)
(* The same requests as Spec, started on the table that the first login of *)
(* Long leaves: its user name is the first USERNAME_MAX characters of      *)
(* Long2's, so that the creation of an account for Long2 hits the unique   *)
(* constraint of username.                                                 *)

LongAccount == get_user_from_microsoft(<<>>, Long, "at1", "rt1", "e1").users[1]

ConflictInit ==
    /\ now = 0
    /\ signed = {}
    /\ users = <<LongAccount>>
    /\ pc = "idle"
    /\ sid = "A"
    /\ kwargs = NoKwargs
    /\ message = EmptyDict
    /\ status = 0
    /\ exc = ""
    /\ client = NoClient
    /\ local = NoLocal
    /\ trace = NoTrace
    /\ call = NoCall
    /\ procs = NoProcs
    /\ clients = NoClients
    /\ accepted = {}

ConflictSpec == ConflictInit /\ [][Next]_vars


----------------------------------------------------------------------------
(* The account reconciliation on its own: _get_user_from_microsoft called   *)
(* with verified claims and the values of a token response, over a user     *)
(* table that may hold accounts made elsewhere (createsuperuser, the admin) *)

MaxAccounts == 2

\* Jane after the provider renamed her: preferred_username is mutable
JaneRenamed == [Jane EXCEPT !.preferred_username = <<"j", "o", "@", "x", ".", "i", "o">>]
\* claims without a name
JaneNoName == [name |-> None, sub |-> Jane.sub,
               preferred_username |-> Jane.preferred_username]
\* another person, who was given the user name Jane had
Jane2 == [sub |-> "xyz789", preferred_username |-> Jane.preferred_username,
          name |-> Some(<<"J", "o", " ", "D", "e", " ", "B">>)]

StoreIdentities == {Jane, Bob, JaneRenamed, JaneNoName, Jane2, Long, Long2}

\* accounts that were not made by a Microsoft login: no microsoft_id, no tokens
StaffJane == [username |-> Jane.preferred_username, first_name |-> <<>>,
              last_name |-> <<>>, email |-> <<>>, microsoft_id |-> None,
              microsoft_code |-> "", microsoft_refresh |-> "",
              microsoft_expires_at |-> ""]
StaffBob == [username |-> Bob.preferred_username, first_name |-> <<"R", "o", "b">>,
             last_name |-> <<>>, email |-> <<>>, microsoft_id |-> None,
             microsoft_code |-> "", microsoft_refresh |-> "",
             microsoft_expires_at |-> ""]

InitStores == { <<>>, <<StaffJane>>, <<StaffBob>> }

\* (ms_token, refresh_token, microsoft_expires_at) as authenticate passes
\* them, lines 63-74; the second is a response without a refresh token
TokenBundles ==
    { [access |-> "at1", refresh |-> "rt1", expires |-> "e1"],
      [access |-> "at2", refresh |-> "", expires |-> "0"] }

StoreInit ==
    /\ users \in InitStores
    /\ call = NoCall
    /\ procs = NoProcs
    /\ clients = NoClients
    /\ accepted = {}
    /\ now = 0
    /\ signed = {}
    /\ pc = "idle"
    /\ sid = "A"
    /\ kwargs = NoKwargs
    /\ message = EmptyDict
    /\ status = 0
    /\ exc = ""
    /\ client = NoClient
    /\ local = NoLocal
    /\ trace = NoTrace

\* one call of _get_user_from_microsoft, lines 90-139
StoreLogin ==
    /\ \E data \in StoreIdentities : \E tok \in TokenBundles :
        LET r == get_user_from_microsoft(users, data, tok.access, tok.refresh,
                                         tok.expires)
        IN  /\ Len(r.users) <= MaxAccounts
            /\ users' = r.users
            /\ call' = [data |-> Some(data), token |-> Some(tok),
                        users0 |-> users, user |-> r.user]
    /\ UNCHANGED <<now, signed, pc, sid, kwargs, message, status, exc,
                   client, local, trace, procs, clients, accepted>>

StoreNext == StoreLogin

StoreSpec == StoreInit /\ [][StoreNext]_vars


----------------------------------------------------------------------------
(* Concurrent calls of _get_user_from_microsoft: every query and every     *)
(* save() is one statement on the database (autocommit), and statements of *)
(* different requests interleave.  A request holds a model instance, a     *)
(* copy of the row it read; save() writes all fields of the instance to    *)
(* the row with its primary key.                                           *)

RaceIdentities == {Jane, JaneRenamed, Jane2, Long}

RaceInit ==
    /\ users \in InitStores
    /\ procs = NoProcs
    /\ clients = NoClients
    /\ accepted = {}
    /\ call = NoCall
    /\ now = 0
    /\ signed = {}
    /\ pc = "idle"
    /\ sid = "A"
    /\ kwargs = NoKwargs
    /\ message = EmptyDict
    /\ status = 0
    /\ exc = ""
    /\ client = NoClient
    /\ local = NoLocal
    /\ trace = NoTrace

\* the model instance of row pk of table us
Instance(us, pk) == Some([pk |-> pk, row |-> us[pk]])

\* user.save()
Save(us, obj) == [us EXCEPT ![obj.pk] = obj.row]

RaceFrame == UNCHANGED <<now, signed, pc, sid, kwargs, message, status, exc,
                         client, local, trace, call, clients, accepted>>

\* line 95: User.objects.filter(microsoft_id=data["sub"]).first()
Lookup(p) ==
    /\ procs[p].pc = "idle"
    /\ \E data \in RaceIdentities : \E tok \in TokenBundles :
        LET found == find_by_microsoft_id(users, data.sub)
        IN  procs' = [procs EXCEPT ![p] =
                        [pc |-> IF found = None THEN "get" ELSE "tokens",
                         data |-> Some(data), tok |-> Some(tok),
                         obj |-> IF found = None THEN None
                                 ELSE Instance(users, found[1]),
                         lost |-> FALSE]]
    /\ UNCHANGED users
    /\ RaceFrame

\* lines 109-121, get_or_create: self.get(username=preferred_username)
Get(p) ==
    /\ procs[p].pc = "get"
    /\ LET got == find_by_username(users, procs[p].data[1].preferred_username)
       IN  procs' = [procs EXCEPT ![p].pc = IF got = None THEN "create" ELSE "link",
                                  ![p].obj = IF got = None THEN None
                                             ELSE Instance(users, got[1])]
    /\ UNCHANGED users
    /\ RaceFrame

\* lines 109-125, get_or_create: create(**params); on IntegrityError it
\* repeats the get and raises IntegrityError if that finds nothing, which
\* _get_user_from_microsoft catches and answers with None
Create(p) ==
    /\ procs[p].pc = "create"
    /\ LET data == procs[p].data[1]
           tok == procs[p].tok[1]
           made == get_or_create(users, data, tok.access, tok.refresh, tok.expires)
           taken == find_by_username(users, Take(data.preferred_username, USERNAME_MAX)) # None
       IN  /\ Len(made.users) <= MaxAccounts
           /\ users' = made.users
           /\ procs' = [procs EXCEPT
                          ![p].pc = IF made.exc # "" THEN "failed" ELSE "link",
                          ![p].obj = IF made.exc # "" THEN None
                                     ELSE Instance(made.users, made.user[1]),
                          ![p].lost = taken]
    /\ RaceFrame

\* lines 126-128: if not user.microsoft_id: set it, save()
Link(p) ==
    /\ procs[p].pc = "link"
    /\ LET obj == procs[p].obj[1]
           new == [obj EXCEPT !.row.microsoft_id = Some(procs[p].data[1].sub)]
       IN  IF obj.row.microsoft_id \in {None, Some("")}
             THEN /\ users' = Save(users, new)
                  /\ procs' = [procs EXCEPT ![p].pc = "names", ![p].obj = Some(new)]
             ELSE /\ UNCHANGED users
                  /\ procs' = [procs EXCEPT ![p].pc = "names"]
    /\ RaceFrame

\* lines 130-133: if both names are empty: set them, save()
Names(p) ==
    /\ procs[p].pc = "names"
    /\ LET obj == procs[p].obj[1]
           names == split_name(procs[p].data[1])
           new == [obj EXCEPT !.row.first_name = names.first_name,
                              !.row.last_name = names.last_name]
       IN  IF obj.row.first_name = <<>> /\ obj.row.last_name = <<>>
             THEN /\ users' = Save(users, new)
                  /\ procs' = [procs EXCEPT ![p].pc = "tokens", ![p].obj = Some(new)]
             ELSE /\ UNCHANGED users
                  /\ procs' = [procs EXCEPT ![p].pc = "tokens"]
    /\ RaceFrame

\* lines 135-139: set the three token fields, save(), return user
Tokens(p) ==
    /\ procs[p].pc = "tokens"
    /\ LET obj == procs[p].obj[1]
           tok == procs[p].tok[1]
           new == [obj EXCEPT !.row = store_tokens(@, tok.access, tok.refresh,
                                                   tok.expires)]
       IN  /\ users' = Save(users, new)
           /\ procs' = [procs EXCEPT ![p].pc = "returned", ![p].obj = Some(new)]
    /\ RaceFrame

\* the request is over
Return(p) ==
    /\ procs[p].pc \in {"returned", "failed"}
    /\ procs' = [procs EXCEPT ![p] = NoProc]
    /\ UNCHANGED users
    /\ RaceFrame

RaceNext ==
    \/ \E p \in Procs : Lookup(p)
    \/ \E p \in Procs : Get(p)
    \/ \E p \in Procs : Create(p)
    \/ \E p \in Procs : Link(p)
    \/ \E p \in Procs : Names(p)
    \/ \E p \in Procs : Tokens(p)
    \/ \E p \in Procs : Return(p)

RaceSpec == RaceInit /\ [][RaceNext]_vars


----------------------------------------------------------------------------
(* MicrosoftClient instances on their own: any sequence of calls of        *)
(* authorization_url, fetch_token, get_claims, refresh_token and of the    *)
(* jwks property.  django.utils.functional's                               *)
(* cached_property stores what the function returns in the instance; when  *)
(* the function raises, nothing is stored.                                 *)

MaxGets == 2

\* openid_config as a plain property: every read sends the GET
access_openid_config_property(i, d) ==
    LET c == openid_config(d)
        i1 == [i EXCEPT !.cfg_gets = @ + 1]
    IN  IF c.exc # ""
          THEN [exc |-> c.exc, doc |-> {}, inst |-> i1]
          ELSE [exc |-> "", doc |-> c.doc, inst |-> [i1 EXCEPT !.cfg = Some(c.doc)]]

\* self.openid_config, lines 80-89, on instance i; d answers the GET if one
\* is sent
access_openid_config(i, d) ==
    IF i.cfg # None THEN [exc |-> "", doc |-> i.cfg[1], inst |-> i]
    ELSE LET c == openid_config(d)
             i1 == [i EXCEPT !.cfg_gets = @ + 1]
         IN  IF c.exc # ""
               THEN [exc |-> c.exc, doc |-> {}, inst |-> i1]
               ELSE [exc |-> "", doc |-> c.doc,
                     inst |-> [i1 EXCEPT !.cfg = Some(c.doc)]]

\* self.jwks, lines 91-97, on instance i; j answers the GET of jwks_uri if one
\* is sent
access_jwks(i, d, j) ==
    IF i.keys # None THEN [exc |-> "", keys |-> i.keys[1], inst |-> i]
    ELSE LET c == access_openid_config(i, d)
             k == jwks(c.doc, j)
             i1 == [c.inst EXCEPT !.jwks_gets = @ + 1]
         IN  IF c.exc # ""
               THEN [exc |-> c.exc, keys |-> <<>>, inst |-> c.inst]
             ELSE IF "jwks_uri" \notin c.doc
               THEN [exc |-> "KeyError", keys |-> <<>>, inst |-> c.inst]
             ELSE IF k.exc # ""
               THEN [exc |-> k.exc, keys |-> <<>>, inst |-> i1]
             ELSE [exc |-> "", keys |-> k.keys,
                   inst |-> [i1 EXCEPT !.keys = Some(k.keys)]]

\* authorization_url, lines 131-136
authorization_url(i, d) ==
    LET c == access_openid_config(i, d)
    IN  IF c.exc # "" THEN [exc |-> c.exc, ret |-> None, inst |-> c.inst]
        ELSE IF "authorization_endpoint" \notin c.doc
          THEN [exc |-> "KeyError", ret |-> None, inst |-> c.inst]
        ELSE [exc |-> "", ret |-> Some("url"), inst |-> c.inst]

\* fetch_token, lines 138-146; x is what super().fetch_token does
fetch_token(i, d, x) ==
    LET c == access_openid_config(i, d)
    IN  IF c.exc # "" THEN [exc |-> c.exc, ret |-> None, inst |-> c.inst]
        ELSE IF "token_endpoint" \notin c.doc
          THEN [exc |-> "KeyError", ret |-> None, inst |-> c.inst]
        ELSE IF x.exc # "" THEN [exc |-> x.exc, ret |-> None, inst |-> c.inst]
        ELSE [exc |-> "", ret |-> Some("token"),
              inst |-> [c.inst EXCEPT !.token = x.token]]

\* get_claims, lines 99-129, on instance i: the key set is read only after the
\* token's header gave a kid
client_get_claims(i, d, j, t) ==
    LET early == get_claims(i.token, {}, j, t)
        reads == /\ i.token # None
                 /\ i.token[1].id_token # None
                 /\ i.token[1].id_token[1].wellformed
                 /\ i.token[1].id_token[1].kid # None
        a == access_jwks(i, d, j)
        r == get_claims(i.token, FullConfig, [status |-> "ok", keys |-> a.keys], t)
    IN  IF ~reads THEN [exc |-> early.exc, ret |-> early.claims, inst |-> i]
        ELSE IF a.exc # "" THEN [exc |-> a.exc, ret |-> None, inst |-> a.inst]
        ELSE [exc |-> r.exc, ret |-> r.claims, inst |-> a.inst]

\* OAuth2Session.refresh_token of requests-oauthlib 1.2.0, called with the
\* stored refresh token: raises on a network failure, on an error answer of
\* the provider and on an answer without access_token (MissingTokenError);
\* otherwise returns the parsed answer, in which a missing refresh_token is
\* replaced by the one that was sent ("No new refresh token given. Re-using
\* old.") and expires_at is there if the answer had expires_in
session_refresh_token(x, sent) ==
    IF x.kind = "neterr" THEN [exc |-> "ConnectionError", payload |-> None]
    ELSE IF x.kind = "error" THEN [exc |-> "InvalidGrantError", payload |-> None]
    ELSE IF x.access_token = None THEN [exc |-> "MissingTokenError", payload |-> None]
    ELSE [exc |-> "",
          payload |-> Some([scope |-> Some(FullScope),
                            access_token |-> x.access_token,
                            refresh_token |-> IF x.refresh_token = None
                                                THEN Some(sent) ELSE x.refresh_token,
                            expires_at |-> x.expires_at,
                            id_token |-> None])]

\* refresh_token(user), lines 152-169, for the account with primary key pk
refresh_token(i, d, x, us, pk) ==
    LET c == access_openid_config(i, d)
        p == session_refresh_token(x, us[pk].microsoft_refresh)
        pay == p.payload[1]
        i1 == [c.inst EXCEPT !.token = p.payload]
    IN  IF c.exc # "" THEN [exc |-> c.exc, ret |-> None, inst |-> c.inst, users |-> us]
        ELSE IF "token_endpoint" \notin c.doc
          THEN [exc |-> "KeyError", ret |-> None, inst |-> c.inst, users |-> us]
        ELSE IF p.exc # ""
          THEN [exc |-> p.exc, ret |-> None, inst |-> c.inst, users |-> us]
        ELSE IF pay.refresh_token # None /\ pay.access_token # None
          THEN IF pay.expires_at = None
                 \* token_payload["expires_at"]: KeyError, swallowed by `except:`
                 THEN [exc |-> "", ret |-> Some(FALSE), inst |-> i1, users |-> us]
                 ELSE [exc |-> "", ret |-> Some(TRUE), inst |-> i1,
                       users |-> [us EXCEPT ![pk] =
                                    store_tokens(@, pay.access_token[1],
                                                 pay.refresh_token[1],
                                                 pay.expires_at[1])]]
        ELSE [exc |-> "", ret |-> Some(FALSE), inst |-> i1, users |-> us]

\* the account Jane's first login makes
LinkedJane ==
    get_user_from_microsoft(<<>>, Jane, "at1", "rt1", "e1").users[1]

\* what super().fetch_token does
ClientExchanges ==
    { [exc |-> "ConnectionError", token |-> None] }
    \cup { [exc |-> "", token |-> Some(
              [scope |-> Some(FullScope), access_token |-> Some("at1"),
               refresh_token |-> Some("rt1"), expires_at |-> Some("e1"),
               id_token |-> Some(i)])] :
            i \in { GoodIdToken(Jane, 0) } }

ClientJwks ==
    { [status |-> "not_ok", keys |-> <<>>], [status |-> "neterr", keys |-> <<>>],
      [status |-> "ok", keys |-> <<J1>>] }

\* answers to the refresh request
RefreshResponses ==
    { [kind |-> k, access_token |-> None, refresh_token |-> None, expires_at |-> None] :
        k \in {"neterr", "error"} }
    \cup { [kind |-> "json", access_token |-> a, refresh_token |-> r,
             expires_at |-> Some("e2")] :
             a \in {None, Some("at2")}, r \in {None, Some("rt2")} }
    \cup { [kind |-> "json", access_token |-> Some("at2"),
             refresh_token |-> Some("rt2"), expires_at |-> None] }

ClientInit ==
    /\ users = <<LinkedJane>>
    /\ clients = NoClients
    /\ accepted = {}
    /\ procs = NoProcs
    /\ call = NoCall
    /\ now = 0
    /\ signed = {}
    /\ pc = "idle"
    /\ sid = "A"
    /\ kwargs = NoKwargs
    /\ message = EmptyDict
    /\ status = 0
    /\ exc = ""
    /\ client = NoClient
    /\ local = NoLocal
    /\ trace = NoTrace

ClientFrame == UNCHANGED <<now, signed, pc, sid, kwargs, message, status, exc,
                           client, local, trace, call, procs, accepted>>

\* the answers instance i can get to the GET of the discovery document and
\* to the GET of jwks_uri: nothing is sent, and nothing answered, once the
\* property is cached
DiscoveryFor(i) == IF i.cfg = None THEN DiscoveryResponses ELSE {"ok"}
JwksFor(i) == IF i.keys = None THEN ClientJwks
              ELSE {[status |-> "ok", keys |-> i.keys[1]]}

\* the counters stay within the bound
InBound(i) == i.cfg_gets <= MaxGets /\ i.jwks_gets <= MaxGets

\* the call op of instance c, with answer x to its refresh request, ended
\* as r says
Ends(c, op, x, r) ==
    /\ InBound(r.inst)
    /\ clients' = [inst |-> [clients.inst EXCEPT ![c] = r.inst],
                   last |-> [c |-> c, op |-> op, x |-> x, users0 |-> users,
                             exc |-> r.exc, ret |-> r.ret]]

AuthorizationUrl ==
    /\ \E c \in ClientIds : \E d \in DiscoveryFor(clients.inst[c]) :
        Ends(c, "authorization_url", None, authorization_url(clients.inst[c], d))
    /\ UNCHANGED users
    /\ ClientFrame

ClientFetchToken ==
    /\ \E c \in FullClients : \E d \in DiscoveryFor(clients.inst[c]) : \E x \in ClientExchanges :
        Ends(c, "fetch_token", None, fetch_token(clients.inst[c], d, x))
    /\ UNCHANGED users
    /\ ClientFrame

ClientGetClaims ==
    /\ \E c \in FullClients : \E d \in DiscoveryFor(clients.inst[c]) : \E j \in JwksFor(clients.inst[c]) :
        Ends(c, "get_claims", None, client_get_claims(clients.inst[c], d, j, now))
    /\ UNCHANGED users
    /\ ClientFrame

\* a read of the jwks property
ClientJwksRead ==
    /\ \E c \in FullClients : \E d \in DiscoveryFor(clients.inst[c]) : \E j \in JwksFor(clients.inst[c]) :
        LET a == access_jwks(clients.inst[c], d, j)
        IN  Ends(c, "jwks", None, [exc |-> a.exc,
                                   ret |-> IF a.exc = "" THEN Some(a.keys) ELSE None,
                                   inst |-> a.inst])
    /\ UNCHANGED users
    /\ ClientFrame

ClientRefreshToken ==
    /\ \E c \in FullClients : \E d \in DiscoveryFor(clients.inst[c]) : \E x \in RefreshResponses :
        LET r == refresh_token(clients.inst[c], d, x, users, 1)
        IN  /\ Ends(c, "refresh_token", Some(x), r)
            /\ users' = r.users
    /\ ClientFrame

ClientNext ==
    \/ AuthorizationUrl
    \/ ClientFetchToken
    \/ ClientGetClaims
    \/ ClientJwksRead
    \/ ClientRefreshToken

ClientSpec == ClientInit /\ [][ClientNext]_vars


----------------------------------------------------------------------------
(* Properties *)

\* the request has passed _check_csrf
PastCsrf == pc \notin {"idle", "check_csrf"}

\* the request is over
Ended == pc \in {"done", "raised"}

\* the recorded failure is e
Failed(e) == "error" \in DOMAIN message /\ message["error"] = e

\* the presented state carries a signature of the project, is at most MaxAge
\* seconds old, and its token has the CSRF length and an alphanumeric character
StateValid ==
    /\ kwargs.state # None
    /\ LET st == kwargs.state[1]
       IN  /\ st.sig = Signature(st.value, st.ts)
           /\ now - st.ts <= MaxAge
           /\ Len(st.value) = CSRF_TOKEN_LENGTH
           /\ \E i \in 1..Len(st.value) : st.value[i] \in AlnumChars

\* scope r is among the scopes the token response grants
Granted(r) ==
    /\ client.token # None
    /\ client.token[1].scope # None
    /\ \E i \in 1..Len(client.token[1].scope[1]) : client.token[1].scope[1][i] = r

RequiredScopes == {"openid", "email", "profile"}

\* the identity token of the token response, once get_claims has run on one
HasIdToken == trace.get_claims /\ client.token # None /\ client.token[1].id_token # None
TheIdToken == client.token[1].id_token[1]

\* C1: login is called (Success, HTTP 200) only if, in this callback, the state
\* passed validation, no error was echoed, a code was present, the exchange
\* returned an access token with the required scopes, get_claims returned
\* claims and reconciliation returned an account; in every other case login is
\* not called and the response is HTTP 400.
C1_LoginOnlyAfterAllChecks ==
    LET all == /\ StateValid
               /\ kwargs.error = None
               /\ kwargs.code # None
               /\ client.token # None
               /\ client.token[1].access_token # None
               /\ \A r \in RequiredScopes : Granted(r)
               /\ local.claims # None
               /\ local.user # None
    IN  /\ trace.login # None => all /\ trace.login = local.user
        /\ Ended => IF trace.login # None THEN status = 200 /\ ~("error" \in DOMAIN message)
                    ELSE status = 400 /\ "error" \in DOMAIN message

\* C2: for every callback input and every result of the token exchange the
\* handling ends with a reported outcome: no exception escapes the callback.
C2_NoExceptionEscapes == pc # "raised" /\ exc = ""

\* C3: when the identity token's kid matches no key of the key set (the empty
\* key set included), get_claims returns None and does not raise.
C3_UnknownKidGivesNoClaims ==
    (HasIdToken /\ client.keys # None
       /\ \A i \in 1..Len(client.keys[1]) : client.keys[1][i].kid # TheIdToken.kid[1])
    => (exc = "" /\ local.claims = None)

\* C4: every verification failure of the identity token (bad signature,
\* audience other than the client id, expired token, malformed token) yields
\* None and is never raised.  Stated for the tokens whose key is found, and
\* for malformed tokens, which fail before the key is looked up.
C4_VerificationFailureGivesNoClaims ==
    (HasIdToken
       /\ \/ ~TheIdToken.wellformed
          \/ /\ client.keys # None
             /\ FirstMatch(client.keys[1], TheIdToken.kid[1]) # None
             /\ FirstMatch(client.keys[1], TheIdToken.kid[1])[1].kty = "RSA"
             /\ TheIdToken.alg = "RS256"
             /\ \/ TheIdToken.signed.key # FirstMatch(client.keys[1], TheIdToken.kid[1])[1].key
                \/ TheIdToken.aud # CLIENT_ID
                \/ TheIdToken.exp < now)
    => (exc = "" /\ local.claims = None)

\* C5: the signature is verified with RS256 only, whatever the header says: a
\* token whose header names another algorithm yields no claims.
C5_OnlyRS256Accepted ==
    (HasIdToken /\ TheIdToken.wellformed /\ TheIdToken.alg # "RS256")
    => local.claims = None

\* C6: _check_csrf succeeds iff the state's signature verifies, its age is at
\* most 300 seconds and the recovered token has CSRF_TOKEN_LENGTH characters,
\* one of them alphanumeric; in every other case the outcome is bad_state.
C6_StateValidation ==
    PastCsrf => IF StateValid
                  THEN pc = "check_response" => "error" \notin DOMAIN message
                  ELSE Failed("bad_state")

\* C7: a state that load_auth_values issued for one browser session is
\* rejected with bad_state in a callback of another session.
C7_StateBoundToSession ==
    (PastCsrf /\ kwargs.state # None /\ kwargs.state[1] \in signed
       /\ kwargs.state[1].value # get_token(sid))
    => Failed("bad_state")

\* C8: the recorded failure is the first in the order state, provider error,
\* code: bad_state for an invalid state whatever else was sent, the provider's
\* error code for a valid state with an echoed error, missing_code for a valid
\* state without error and without code; no later step changes it and no
\* token exchange is attempted.
C8_FirstFailureIsRecorded ==
    Ended =>
        IF ~StateValid THEN Failed("bad_state") /\ ~trace.fetch_token
        ELSE IF kwargs.error # None THEN Failed(kwargs.error[1]) /\ ~trace.fetch_token
        ELSE IF kwargs.code = None THEN Failed("missing_code") /\ ~trace.fetch_token
        ELSE TRUE

\* C9: every Failure outcome carries a non-null description; a provider error
\* sent without error_description gets one from the messages table.
C9_FailureHasDescription ==
    (pc = "done" /\ "error" \in DOMAIN message)
    => ("error_description" \in DOMAIN message /\ message["error_description"] # None)

\* C10: valid_scopes is true iff openid, email and profile are all granted
\* (nothing else is required); when it is false authenticate returns no user,
\* get_claims is not called, the user table is untouched and the outcome is
\* login_failed.
C10_ScopesGate ==
    local.scope # None =>
        /\ local.scope[1] <=> \A r \in RequiredScopes : Granted(r)
        /\ ~local.scope[1] =>
              /\ local.user = None /\ local.claims = None
              /\ ~trace.get_claims /\ trace.login = None
              /\ users = trace.users0
              /\ pc \in {"populate", "done"}
              /\ Failed("login_failed")
              /\ pc = "done" => status = 400

\* C10's case: the provider granted openid and profile only, and the callback
\* ended login_failed
C10_Witness ==
    /\ pc = "done"
    /\ local.scope = Some(FALSE)
    /\ client.token[1].scope = Some(<<"openid", "profile">>)
    /\ client.token[1].access_token # None
    /\ Failed("login_failed")

\* C17: no record of used states is kept: when a callback presents a state
\* value that an earlier callback accepted, it is accepted again if its age is
\* at most 300 seconds; and a state whose age exceeds 300 seconds is never
\* accepted.
C17_ReplayWithinWindow ==
    (PastCsrf /\ kwargs.state # None) =>
        /\ kwargs.state[1] \in accepted =>
              IF now - kwargs.state[1].ts <= MaxAge
                THEN trace.csrf_ok /\ ~Failed("bad_state")
                ELSE ~trace.csrf_ok /\ Failed("bad_state")
        /\ now - kwargs.state[1].ts > MaxAge =>
              ~trace.csrf_ok /\ Failed("bad_state")

\* C17's case: a state value that an earlier callback accepted is presented
\* again when it is exactly 300 seconds old, by another browser session, and
\* is accepted
C17_Witness ==
    /\ PastCsrf
    /\ kwargs.state # None
    /\ kwargs.state[1] \in accepted
    /\ now - kwargs.state[1].ts = MaxAge
    /\ kwargs.state[1].value # get_token(sid)
    /\ trace.csrf_ok
    /\ ~("error" \in DOMAIN message)
    /\ pc = "check_response"

----------------------------------------------------------------------------
(* Properties of the account reconciliation (StoreSpec) *)

\* _get_user_from_microsoft has been called; its claims and token values
Called == call.data # None
TheData == call.data[1]
TheBundle == call.token[1]
TheName == IF TheData.name = None THEN <<>> ELSE TheData.name[1]

\* some account of table us is linked to subject id sub
HasLinked(us, sub) == \E i \in 1..Len(us) : us[i].microsoft_id = Some(sub)
\* some account of table us has the user name
HasUsername(us, name) == \E i \in 1..Len(us) : us[i].username = name

\* first and last are name split at its first space
SplitAtFirstSpace(name, first, last) ==
    IF \E i \in 1..Len(name) : name[i] = " "
      THEN /\ first \o <<" ">> \o last = name
           /\ \A i \in 1..Len(first) : first[i] # " "
      ELSE first = name /\ last = <<>>

\* account u holds the token values of the call
HasFreshTokens(u) ==
    /\ u.microsoft_code = TheBundle.access
    /\ u.microsoft_refresh = TheBundle.refresh
    /\ u.microsoft_expires_at = TheBundle.expires

\* the accounts the call found are as they were
OthersUntouched(pk) ==
    \A i \in 1..Len(call.users0) : i # pk => (i <= Len(users) /\ users[i] = call.users0[i])

\* C13: a login by a subject id that already has a linked account returns that
\* account, creates none, overwrites its access token, refresh token and expiry
\* with the values of the call, and leaves its username, names, email and
\* microsoft_id (and every other account) as they were.
C13_LinkedAccountReused ==
    (Called /\ HasLinked(call.users0, TheData.sub)) =>
        /\ call.user # None
        /\ LET pk == call.user[1]
           IN  /\ pk <= Len(call.users0)
               /\ call.users0[pk].microsoft_id = Some(TheData.sub)
               /\ Len(users) = Len(call.users0)
               /\ OthersUntouched(pk)
               /\ HasFreshTokens(users[pk])
               /\ users[pk].username = call.users0[pk].username
               /\ users[pk].first_name = call.users0[pk].first_name
               /\ users[pk].last_name = call.users0[pk].last_name
               /\ users[pk].email = call.users0[pk].email
               /\ users[pk].microsoft_id = call.users0[pk].microsoft_id

\* C13's case: the second login of a subject id, with a user name that is
\* no longer the stored one and with token values that all differ from the
\* stored ones
C13_Witness ==
    /\ Called
    /\ HasLinked(call.users0, TheData.sub)
    /\ call.user # None
    /\ users[call.user[1]].username # TheData.preferred_username
    /\ users[call.user[1]].microsoft_code # call.users0[call.user[1]].microsoft_code
    /\ users[call.user[1]].microsoft_refresh # call.users0[call.user[1]].microsoft_refresh
    /\ users[call.user[1]].microsoft_expires_at
         # call.users0[call.user[1]].microsoft_expires_at

\* the first USERNAME_MAX characters of str
Truncated(str) ==
    SubSeq(str, 1, IF Len(str) > USERNAME_MAX THEN USERNAME_MAX ELSE Len(str))

\* the call created one account, with this user name and with everything else
\* taken from the claims and the token values
Created(username) ==
    /\ call.user = Some(Len(call.users0) + 1)
    /\ Len(users) = Len(call.users0) + 1
    /\ OthersUntouched(0)
    /\ LET u == users[Len(users)]
       IN  /\ u.username = username
           /\ u.microsoft_id = Some(TheData.sub)
           /\ SplitAtFirstSpace(TheName, u.first_name, u.last_name)
           /\ u.email = IF is_email(TheData.preferred_username)
                          THEN TheData.preferred_username ELSE <<>>
           /\ HasFreshTokens(u)

\* C14 as stated: a first-time login (no account with the subject id, none
\* with the user name) creates exactly one account with username =
\* preferred_username, microsoft_id = sub, the name split at its first space,
\* email = preferred_username if e-mail shaped, and the token values; an
\* account is returned.
C14_FirstLoginCreates ==
    (Called /\ ~HasLinked(call.users0, TheData.sub)
       /\ ~HasUsername(call.users0, TheData.preferred_username))
    => Created(TheData.preferred_username)

\* C14, amended: the user name of the new account is the first 150 characters
\* of preferred_username, and first-time means that no account has the subject
\* id and none has that user name of at most 150 characters.
C14_FirstLoginCreatesTruncated ==
    (Called /\ ~HasLinked(call.users0, TheData.sub)
       /\ ~HasUsername(call.users0, Truncated(TheData.preferred_username)))
    => Created(Truncated(TheData.preferred_username))

\* C14's case: a first-time login whose preferred_username is longer than 150
\* characters and e-mail shaped
C14_Witness ==
    /\ Called
    /\ ~HasLinked(call.users0, TheData.sub)
    /\ Len(TheData.preferred_username) > USERNAME_MAX
    /\ call.user = Some(Len(users))
    /\ Len(users[Len(users)].username) = USERNAME_MAX
    /\ Len(users[Len(users)].email) > USERNAME_MAX

\* C20: when the call returns an account that existed before it and had empty
\* first and last names, found by subject id or by user name, the account has
\* the claims' name, split at its first space, afterwards.
C20_EmptyNamesBackfilled ==
    (Called /\ call.user # None /\ call.user[1] <= Len(call.users0)
       /\ call.users0[call.user[1]].first_name = <<>>
       /\ call.users0[call.user[1]].last_name = <<>>)
    => SplitAtFirstSpace(TheName, users[call.user[1]].first_name,
                         users[call.user[1]].last_name)

C11_NoDuplicateSubjectId ==
    /\ \A i, j \in 1..Len(users) :
          (i # j /\ users[i].microsoft_id \notin {None, Some("")})
          => users[i].microsoft_id # users[j].microsoft_id
    /\ \A p \in Procs :
          (procs[p].lost /\ procs[p].pc \notin {"create", "failed"})
          => procs[p].obj # None

\* C21: the account a call returns is linked to the identity of the call: its
\* microsoft_id is the sub of the claims, whatever the user table held before.
C21_ReturnedAccountIsLinked ==
    (Called /\ call.user # None)
    => users[call.user[1]].microsoft_id = Some(TheData.sub)

----------------------------------------------------------------------------
(* Frame of a failed callback (ConflictSpec) *)

\* the creation of the account hit the unique constraint of username
CreationConflict == local.claims # None /\ local.user = None

\* C22: a callback that ends in a Failure outcome leaves the user table as it
\* was when the callback started (no account changed, none created), and while
\* a callback runs the table only differs from that once get_claims has
\* returned claims.
C22_FailureLeavesStoreUntouched ==
    /\ (pc = "done" /\ "error" \in DOMAIN message) => users = trace.users0
    /\ (pc # "idle" /\ users # trace.users0)
         => (trace.get_claims /\ local.claims # None)

\* a callback for Long2 passed the state check, the exchange, the scope check
\* and get_claims, and ended login_failed on the creation conflict
C22_Witness ==
    /\ pc = "done"
    /\ Failed("login_failed")
    /\ trace.fetch_token
    /\ CreationConflict
    /\ local.claims[1].sub = Long2.sub
    /\ users = <<LongAccount>>

----------------------------------------------------------------------------
(* Properties of MicrosoftClient instances (ClientSpec) *)

\* the last call was refresh_token, and the answer to its refresh request
Refreshed == clients.last.op = "refresh_token"
TheAnswer == clients.last.x[1]

\* the three stored token values of account u
StoredTokens(u) == <<u.microsoft_code, u.microsoft_refresh, u.microsoft_expires_at>>

\* the instance of the last call found token_endpoint in the discovery document
HadEndpoint ==
    /\ clients.inst[clients.last.c].cfg # None
    /\ "token_endpoint" \in clients.inst[clients.last.c].cfg[1]

\* C15: when the answer to the refresh request has no refresh_token, or no
\* access_token, refresh_token returns False and the stored access token,
\* refresh token and expiry are as before (so that a second call with the same
\* answer gives the same result and the same stored account).
C15_RefreshWithoutTokenFails ==
    (Refreshed /\ HadEndpoint /\ TheAnswer.kind = "json"
       /\ (TheAnswer.refresh_token = None \/ TheAnswer.access_token = None))
    => /\ clients.last.exc = ""
       /\ clients.last.ret = Some(FALSE)
       /\ StoredTokens(users[1]) = StoredTokens(clients.last.users0[1])

\* C16: refresh_token never raises; it returns True only when the answer has
\* both an access token and a refresh token and the account was saved with
\* them, and it returns False for every other answer and for a network or
\* provider failure of the refresh request.
C16_RefreshNeverRaises ==
    Refreshed =>
        /\ clients.last.exc = ""
        /\ clients.last.ret # None
        /\ clients.last.ret = Some(TRUE) =>
              /\ TheAnswer.kind = "json"
              /\ TheAnswer.access_token # None /\ TheAnswer.refresh_token # None
              /\ users[1].microsoft_code = TheAnswer.access_token[1]
              /\ users[1].microsoft_refresh = TheAnswer.refresh_token[1]
        /\ (TheAnswer.kind # "json" \/ TheAnswer.access_token = None
              \/ TheAnswer.refresh_token = None)
           => clients.last.ret = Some(FALSE)

\* C19: on an instance whose discovery document is the empty one (non-success
\* answer) no call raises: a read of jwks gives the empty key set and
\* get_claims gives no claims; and a non-success answer to the GET of jwks_uri
\* makes jwks the empty key set.
C19_EmptyDiscoveryNeverRaises ==
    /\ (clients.last.c # "" /\ clients.inst[clients.last.c].cfg = Some({}))
       => /\ clients.last.exc = ""
          /\ clients.last.op = "jwks" => clients.last.ret = Some(<<>>)
          /\ clients.last.op = "get_claims" => clients.last.ret = None
    /\ \A c \in ClientIds :
          (clients.inst[c].keys # None /\ clients.inst[c].keys[1] # <<>>)
          => clients.inst[c].cfg = Some(FullConfig)

\* the cached results of instance c stay, and once a result is cached no GET
\* is sent for it
Memoized(c) ==
    /\ clients.inst[c].cfg # None
       => /\ clients'.inst[c].cfg = clients.inst[c].cfg
          /\ clients'.inst[c].cfg_gets = clients.inst[c].cfg_gets
    /\ clients.inst[c].keys # None
       => /\ clients'.inst[c].keys = clients.inst[c].keys
          /\ clients'.inst[c].jwks_gets = clients.inst[c].jwks_gets

\* an empty discovery document (KeyError on its endpoint) is a cached result
EmptyIsCached(c) ==
    (clients'.last.c = c /\ clients'.last.exc = "KeyError"
       /\ clients'.last.op = "authorization_url")
    => clients'.inst[c].cfg = Some({})

\* a cache of instance c is filled only by a GET that c sent, and a call on
\* another instance leaves c as it was
NotShared(c) ==
    /\ (clients.inst[c].cfg = None /\ clients'.inst[c].cfg # None)
       => clients'.inst[c].cfg_gets = clients.inst[c].cfg_gets + 1
    /\ (clients.inst[c].keys = None /\ clients'.inst[c].keys # None)
       => clients'.inst[c].jwks_gets = clients.inst[c].jwks_gets + 1
    /\ clients'.last.c # c => clients'.inst[c] = clients.inst[c]

\* C18 as stated: within one instance at most one GET is sent for the
\* discovery document and at most one for the key set, whatever calls are
\* made; later reads return the first result, an empty one included; two
\* instances share no cached result.
C18_OneGetPerProperty ==
    [][\A c \in ClientIds :
          /\ clients'.inst[c].cfg_gets <= 1
          /\ clients'.inst[c].jwks_gets <= 1
          /\ Memoized(c) /\ EmptyIsCached(c) /\ NotShared(c)]_vars

\* C18, amended: at most one GET that is answered: a GET that raises (network
\* failure) caches nothing and the next read sends another; once a GET is
\* answered its result, an empty one included, is what every later read
\* returns, and no further GET is sent; two instances share no cached result.
C18_OneAnsweredGetPerProperty ==
    [][\A c \in ClientIds :
          /\ clients'.inst[c].cfg_gets <= clients.inst[c].cfg_gets + 1
          /\ clients'.inst[c].jwks_gets <= clients.inst[c].jwks_gets + 1
          /\ Memoized(c) /\ EmptyIsCached(c) /\ NotShared(c)]_vars

\* C18's case: an instance whose first GET of the discovery document raised
\* and whose second was answered without success holds the empty document,
\* and a later call on it sent no GET; the other instance holds the full
\* document it fetched itself
C18_Witness ==
    /\ clients.inst["any"].cfg = Some({})
    /\ clients.inst["any"].cfg_gets = 2
    /\ clients.last.c = "any"
    /\ clients.last.op = "refresh_token"
    /\ clients.last.exc = "KeyError"
    /\ clients.inst["tag"].cfg = Some(FullConfig)
    /\ clients.inst["tag"].cfg_gets = 1

====
